---- MODULE Spec2Model ----
(***************************************************************************)
(* Binary heap of src/data-structures/heap.js.                             *)
(*                                                                         *)
(* The backing array this._heap is the sequence _heap; the code's          *)
(* zero-based index i is position i + 1 of the sequence.  Elements are     *)
(* JavaScript values: plain numbers when the heap is built without a       *)
(* comparator, references to person objects when it is built with the      *)
(* birthyear comparator of the module's @example.  An object reference is  *)
(* the object's identity; its birthyear field lives in birthyear, so a     *)
(* caller who holds the reference can change the field of a stored object. *)
(***************************************************************************)
EXTENDS Integers, Sequences, FiniteSets, Bags, TLC

VARIABLES
  _heap,      \* this._heap
  cmpSel,     \* which this._cmp the constructor stored
  birthyear,  \* the birthyear field of every person object
  op,         \* the last method called ("new" right after construction)
  args,       \* its arguments
  ret,        \* its return value
  thrown,     \* whether it threw
  adds,       \* number of add calls so far
  extracts,   \* number of extract calls that returned so far
  added,      \* fill/drain run: the values added, in call order
  out,        \* fill/drain run: the values extracted, in call order
  phase,      \* fill/drain run: "fill", then "drain"
  dirty,      \* the objects whose field changed since the last update of them
  muts,       \* number of field changes so far
  pc,         \* stepwise run: "idle" between calls, "up" at the test of
              \* changeKey's while loop, "down" at the entry of a _heapify call
  cur,        \* stepwise run: index of the loop or of the _heapify call
  ups,        \* stepwise run: swaps of the while loop in the current call
  downs       \* stepwise run: swaps of _heapify in the current call

vars == <<_heap, cmpSel, birthyear, op, args, ret, thrown, adds, extracts,
          added, out, phase, dirty, muts, pc, cur, ups, downs>>

-----------------------------------------------------------------------------
(* Bounds *)

\* add is called at most MaxAdds times, so the heap holds at most MaxAdds
\* elements
MaxAdds == 4

\* a fill/drain run adds at most MaxFill values
MaxFill == 5

\* a caller changes fields of stored objects at most MaxMuts times
MaxMuts == 2

-----------------------------------------------------------------------------
(* Inputs *)

\* the numbers a caller stores in a heap built without a comparator
Nums == {1, 2, 3, 4, 5, 8}

\* John, Pavlo, Garry, Derek, Ivan of the @example, in the order added
Persons == 1 .. 5

ExampleYears == <<1981, 2000, 1989, 1990, 1966>>

Years == {ExampleYears[p] : p \in Persons}

\* a value that is no stored element and no index: the result of a method
\* without a return statement
Undefined == -1

Values == IF cmpSel = "default" THEN Nums ELSE Persons

-----------------------------------------------------------------------------
(* Array access, zero-based as in the code *)

At(h, i) == h[i + 1]

Put(h, i, v) == [h EXCEPT ![i + 1] = v]

Pop(h) == SubSeq(h, 1, Len(h) - 1)

\* Array.prototype.indexOf: the first index holding node, -1 if none
indexOf(h, node) ==
  IF \E i \in 0 .. Len(h) - 1 : At(h, i) = node
  THEN CHOOSE i \in 0 .. Len(h) - 1 :
         /\ At(h, i) = node
         /\ \A j \in 0 .. i - 1 : At(h, j) # node
  ELSE -1

-----------------------------------------------------------------------------
(* The comparator *)

_cmp(a, b) ==
  IF cmpSel = "default"
  THEN a - b
  ELSE birthyear[a] - birthyear[b]

-----------------------------------------------------------------------------
(* _heapify *)

RECURSIVE _heapify(_, _)
\* a _heapify that never looks at the right child
_heapify_leftOnly(h, index) ==
  LET left == 2 * index + 1
  IN  IF left < Len(h) /\ _cmp(At(h, left), At(h, index)) > 0
      THEN _heapify(Put(Put(h, index, At(h, left)), left, At(h, index)), left)
      ELSE h

\* a _heapify whose right child also wins a tie
_heapify_rightOnTies(h, index) ==
  LET left == 2 * index + 1
      right == 2 * index + 2
      afterLeft ==
        IF left < Len(h) /\ _cmp(At(h, left), At(h, index)) > 0
        THEN left ELSE index
      largest ==
        IF right < Len(h) /\ _cmp(At(h, right), At(h, afterLeft)) >= 0
        THEN right ELSE afterLeft
  IN  IF largest # index
      THEN _heapify(Put(Put(h, index, At(h, largest)), largest, At(h, index)),
                    largest)
      ELSE h

\* a _heapify that swaps once and does not descend into the swapped subtree
_heapify_oneLevel(h, index) ==
  LET left == 2 * index + 1
      right == 2 * index + 2
      afterLeft ==
        IF left < Len(h) /\ _cmp(At(h, left), At(h, index)) > 0
        THEN left ELSE index
      largest ==
        IF right < Len(h) /\ _cmp(At(h, right), At(h, afterLeft)) > 0
        THEN right ELSE afterLeft
  IN  IF largest # index
      THEN Put(Put(h, index, At(h, largest)), largest, At(h, index))
      ELSE h

_heapify(h, index) ==
  LET left == 2 * index + 1
      right == 2 * index + 2
      afterLeft ==
        IF left < Len(h) /\ _cmp(At(h, left), At(h, index)) > 0
        THEN left ELSE index
      largest ==
        IF right < Len(h) /\ _cmp(At(h, right), At(h, afterLeft)) > 0
        THEN right ELSE afterLeft
  IN  IF largest # index
      THEN _heapify(Put(Put(h, index, At(h, largest)), largest, At(h, index)),
                    largest)
      ELSE h

-----------------------------------------------------------------------------
(* changeKey *)

parentOf(index) == (index - 1) \div 2

\* the while loop of changeKey
RECURSIVE siftUp(_, _, _)
\* a loop that writes the value over its parent and never writes the parent
\* back
siftUp_overwritesParent(h, index, elem) ==
  LET parent == parentOf(index)
  IN  IF index > 0 /\ _cmp(elem, At(h, parent)) > 0
      THEN siftUp(Put(h, parent, elem), parent, elem)
      ELSE [heap |-> h, index |-> index]

\* a loop that also promotes a value that ties with its parent
siftUp_nonStrict(h, index, elem) ==
  LET parent == parentOf(index)
  IN  IF index > 0 /\ _cmp(elem, At(h, parent)) >= 0
      THEN siftUp(Put(Put(h, parent, elem), index, At(h, parent)), parent, elem)
      ELSE [heap |-> h, index |-> index]

siftUp(h, index, elem) ==
  LET parent == parentOf(index)
  IN  IF index > 0 /\ _cmp(elem, At(h, parent)) > 0
      THEN siftUp(Put(Put(h, parent, elem), index, At(h, parent)), parent, elem)
      ELSE [heap |-> h, index |-> index]

\* a changeKey without the trailing _heapify
changeKey_noHeapify(h, index, value) ==
  LET up == siftUp(Put(h, index, value), index, value)
  IN  [heap |-> up.heap, ret |-> up.index]

\* a changeKey that returns the loop's parent variable instead of index
changeKey_returnsParent(h, index, value) ==
  LET up == siftUp(Put(h, index, value), index, value)
  IN  [heap |-> _heapify(up.heap, up.index), ret |-> parentOf(up.index)]

\* a changeKey that returns the index it was given
changeKey_returnsArgument(h, index, value) ==
  LET up == siftUp(Put(h, index, value), index, value)
  IN  [heap |-> _heapify(up.heap, up.index), ret |-> index]

changeKey(h, index, value) ==
  LET up == siftUp(Put(h, index, value), index, value)
  IN  [heap |-> _heapify(up.heap, up.index), ret |-> up.index]

\* a loop whose test has the comparison the wrong way round
siftUpStep_reversed(h, index, elem) ==
  LET parent == parentOf(index)
  IN  IF index > 0 /\ _cmp(elem, At(h, parent)) < 0
      THEN [heap |-> Put(Put(h, parent, elem), index, At(h, parent)),
            index |-> parent, again |-> TRUE]
      ELSE [heap |-> h, index |-> index, again |-> FALSE]

\* one test of the while loop and, when it passes, one run of its body
siftUpStep(h, index, elem) ==
  LET parent == parentOf(index)
  IN  IF index > 0 /\ _cmp(elem, At(h, parent)) > 0
      THEN [heap |-> Put(Put(h, parent, elem), index, At(h, parent)),
            index |-> parent, again |-> TRUE]
      ELSE [heap |-> h, index |-> index, again |-> FALSE]

\* a _heapify that calls itself with index instead of largest
heapifyStep_sameIndex(h, index) ==
  LET left == 2 * index + 1
      right == 2 * index + 2
      afterLeft ==
        IF left < Len(h) /\ _cmp(At(h, left), At(h, index)) > 0
        THEN left ELSE index
      largest ==
        IF right < Len(h) /\ _cmp(At(h, right), At(h, afterLeft)) > 0
        THEN right ELSE afterLeft
  IN  IF largest # index
      THEN [heap |-> Put(Put(h, index, At(h, largest)), largest, At(h, index)),
            index |-> index, again |-> TRUE]
      ELSE [heap |-> h, index |-> index, again |-> FALSE]

\* one call of _heapify up to its recursive call: index is the argument of
\* that call
heapifyStep(h, index) ==
  LET left == 2 * index + 1
      right == 2 * index + 2
      afterLeft ==
        IF left < Len(h) /\ _cmp(At(h, left), At(h, index)) > 0
        THEN left ELSE index
      largest ==
        IF right < Len(h) /\ _cmp(At(h, right), At(h, afterLeft)) > 0
        THEN right ELSE afterLeft
  IN  IF largest # index
      THEN [heap |-> Put(Put(h, index, At(h, largest)), largest, At(h, index)),
            index |-> largest, again |-> TRUE]
      ELSE [heap |-> h, index |-> index, again |-> FALSE]

-----------------------------------------------------------------------------
(* update, add, extract *)

add(h, value) == changeKey(Append(h, value), Len(h), value)

\* an update that inserts a node it does not find
update_addsIfAbsent(h, node) ==
  LET idx == indexOf(h, node)
  IN  IF idx >= 0 THEN changeKey(h, idx, node).heap ELSE add(h, node).heap

update(h, node) ==
  LET idx == indexOf(h, node)
  IN  IF idx >= 0 THEN changeKey(h, idx, node).heap ELSE h

\* a top that removes the element it returns
top_removes(h) ==
  IF Len(h) = 0
  THEN [heap |-> h, ret |-> Undefined]
  ELSE [heap |-> SubSeq(h, 2, Len(h)), ret |-> At(h, 0)]

\* this._heap[0] of an empty array is undefined
top(h) ==
  [heap |-> h, ret |-> IF Len(h) = 0 THEN Undefined ELSE At(h, 0)]

\* an extract that pops the last element and never moves it to the root
extract_dropsLast(h) ==
  IF Len(h) = 0
  THEN [heap |-> h, ret |-> Undefined, thrown |-> TRUE]
  ELSE [heap |-> Pop(h), ret |-> At(h, 0), thrown |-> FALSE]

\* an extract without the guard on the empty heap: it returns undefined
extract_noEmptyCheck(h) ==
  IF Len(h) = 0
  THEN [heap |-> h, ret |-> Undefined, thrown |-> FALSE]
  ELSE LET last == At(h, Len(h) - 1)
           popped == Pop(h)
       IN  [heap |-> IF Len(popped) > 0
                     THEN _heapify(Put(popped, 0, last), 0)
                     ELSE popped,
            ret |-> At(h, 0),
            thrown |-> FALSE]

\* an extract that reads the last element without popping it
extract_keepsLast(h) ==
  IF Len(h) = 0
  THEN [heap |-> h, ret |-> Undefined, thrown |-> TRUE]
  ELSE [heap |-> _heapify(Put(h, 0, At(h, Len(h) - 1)), 0),
        ret |-> At(h, 0),
        thrown |-> FALSE]

extract(h) ==
  IF Len(h) = 0
  THEN [heap |-> h, ret |-> Undefined, thrown |-> TRUE]
  ELSE LET extr == At(h, 0)
           last == At(h, Len(h) - 1)
           popped == Pop(h)
       IN  [heap |-> IF Len(popped) > 0
                     THEN _heapify(Put(popped, 0, last), 0)
                     ELSE popped,
            ret |-> extr,
            thrown |-> FALSE]

-----------------------------------------------------------------------------
(* The heap under arbitrary calls of add, extract, changeKey, update, top *)

Init ==
  /\ _heap = <<>>
  /\ cmpSel \in {"default", "birthyear"}
  /\ birthyear = [p \in Persons |-> ExampleYears[p]]
  /\ op = "new"
  /\ args = <<>>
  /\ ret = Undefined
  /\ thrown = FALSE
  /\ adds = 0
  /\ extracts = 0
  /\ added = <<>>
  /\ out = <<>>
  /\ phase = "fill"
  /\ dirty = {}
  /\ muts = 0
  /\ pc = "idle"
  /\ cur = 0
  /\ ups = 0
  /\ downs = 0

\* a call of add(value): what it does to the heap and what the caller sees
CallAdd(value) ==
  /\ LET r == add(_heap, value)
     IN  /\ _heap' = r.heap
         /\ ret' = r.ret
  /\ op' = "add"
  /\ args' = <<value>>
  /\ thrown' = FALSE
  /\ adds' = adds + 1
  /\ extracts' = extracts

\* a call of extract()
CallExtract ==
  /\ LET r == extract(_heap)
     IN  /\ _heap' = r.heap
         /\ ret' = r.ret
         /\ thrown' = r.thrown
         /\ extracts' = IF r.thrown THEN extracts ELSE extracts + 1
  /\ op' = "extract"
  /\ args' = <<>>
  /\ adds' = adds

\* a call of changeKey(index, value)
CallChangeKey(index, value) ==
  /\ LET r == changeKey(_heap, index, value)
     IN  /\ _heap' = r.heap
         /\ ret' = r.ret
  /\ op' = "changeKey"
  /\ args' = <<index, value>>
  /\ thrown' = FALSE
  /\ UNCHANGED <<adds, extracts>>

\* a call of update(node)
CallUpdate(node) ==
  /\ _heap' = update(_heap, node)
  /\ ret' = Undefined
  /\ op' = "update"
  /\ args' = <<node>>
  /\ thrown' = FALSE
  /\ UNCHANGED <<adds, extracts>>

\* a call of top()
CallTop ==
  /\ LET r == top(_heap)
     IN  /\ _heap' = r.heap
         /\ ret' = r.ret
  /\ op' = "top"
  /\ args' = <<>>
  /\ thrown' = FALSE
  /\ UNCHANGED <<adds, extracts>>

Add(value) ==
  /\ adds < MaxAdds
  /\ CallAdd(value)
  /\ UNCHANGED <<pc, cur, ups, downs, cmpSel, birthyear, added, out, phase, dirty, muts>>

Extract ==
  /\ CallExtract
  /\ UNCHANGED <<pc, cur, ups, downs, cmpSel, birthyear, added, out, phase, dirty, muts>>

\* changeKey with an index of the array; an index outside it is a misuse
\* that the properties below do not cover
ChangeKey(index, value) ==
  /\ index < Len(_heap)
  /\ CallChangeKey(index, value)
  /\ UNCHANGED <<pc, cur, ups, downs, cmpSel, birthyear, added, out, phase, dirty, muts>>

Update(node) ==
  /\ CallUpdate(node)
  /\ UNCHANGED <<pc, cur, ups, downs, cmpSel, birthyear, added, out, phase, dirty, muts>>

Top ==
  /\ CallTop
  /\ UNCHANGED <<pc, cur, ups, downs, cmpSel, birthyear, added, out, phase, dirty, muts>>

Next ==
  \/ \E value \in Values : Add(value)
  \/ Extract
  \/ \E index \in 0 .. MaxAdds - 1 : \E value \in Values : ChangeKey(index, value)
  \/ \E node \in Values : Update(node)
  \/ Top

Spec == Init /\ [][Next]_vars

-----------------------------------------------------------------------------
(* A fill/drain run: values are added to a fresh heap, then extracted until *)
(* the heap is empty                                                         *)

Fill(value) ==
  /\ phase = "fill"
  /\ Len(added) < MaxFill
  /\ CallAdd(value)
  /\ added' = Append(added, value)
  /\ UNCHANGED <<pc, cur, ups, downs, cmpSel, birthyear, out, phase, dirty, muts>>

Drain ==
  /\ Len(_heap) > 0
  /\ CallExtract
  /\ out' = Append(out, ret')
  /\ phase' = "drain"
  /\ UNCHANGED <<pc, cur, ups, downs, cmpSel, birthyear, added, dirty, muts>>

NextDrain ==
  \/ \E value \in Values : Fill(value)
  \/ Drain

SpecDrain == Init /\ [][NextDrain]_vars

-----------------------------------------------------------------------------
(* A caller that shares the stored objects: every object is stored at most  *)
(* once; the caller changes the birthyear of one stored object and then     *)
(* calls update with it before it calls anything else.  out is the run of   *)
(* extracts since the last other call.                                       *)

InitUpdate ==
  /\ Init
  /\ cmpSel = "birthyear"

Stored(h, node) == \E i \in 0 .. Len(h) - 1 : At(h, i) = node

AddObject(person) ==
  /\ dirty = {}
  /\ adds < MaxAdds
  /\ ~Stored(_heap, person)
  /\ CallAdd(person)
  /\ out' = <<>>
  /\ UNCHANGED <<pc, cur, ups, downs, cmpSel, birthyear, added, phase, dirty, muts>>

\* person.birthyear = year, by the caller
SetBirthyear(person, year) ==
  /\ dirty = {}
  /\ muts < MaxMuts
  /\ Stored(_heap, person)
  /\ year # birthyear[person]
  /\ birthyear' = [birthyear EXCEPT ![person] = year]
  /\ dirty' = {person}
  /\ muts' = muts + 1
  /\ out' = <<>>
  /\ UNCHANGED <<pc, cur, ups, downs, _heap, cmpSel, op, args, ret, thrown, adds, extracts, added,
                 phase>>

UpdateObject ==
  /\ \E person \in dirty : CallUpdate(person)
  /\ dirty' = {}
  /\ out' = <<>>
  /\ UNCHANGED <<pc, cur, ups, downs, cmpSel, birthyear, added, phase, muts>>

ExtractObject ==
  /\ dirty = {}
  /\ Len(_heap) > 0
  /\ CallExtract
  /\ out' = Append(out, ret')
  /\ UNCHANGED <<pc, cur, ups, downs, cmpSel, birthyear, added, phase, dirty, muts>>

NextUpdate ==
  \/ \E person \in Persons : AddObject(person)
  \/ \E person \in Persons : \E year \in Years : SetBirthyear(person, year)
  \/ UpdateObject
  \/ ExtractObject

SpecUpdate == InitUpdate /\ [][NextUpdate]_vars

-----------------------------------------------------------------------------
(* The same calls run stepwise: a call runs up to the while loop of         *)
(* changeKey or to the first _heapify call, then one loop iteration or one  *)
(* _heapify call at a time.  A call that has started runs to its return     *)
(* before the next call starts.                                             *)

\* add: push, then changeKey up to its loop
StartAdd(value) ==
  /\ pc = "idle"
  /\ adds < MaxAdds
  /\ _heap' = Put(Append(_heap, value), Len(_heap), value)
  /\ pc' = "up"
  /\ cur' = Len(_heap)
  /\ op' = "add"
  /\ args' = <<value>>
  /\ ret' = Undefined
  /\ thrown' = FALSE
  /\ adds' = adds + 1
  /\ ups' = 0
  /\ downs' = 0
  /\ UNCHANGED <<cmpSel, birthyear, extracts, added, out, phase, dirty, muts>>

\* changeKey up to its loop
StartChangeKey(index, value) ==
  /\ pc = "idle"
  /\ index < Len(_heap)
  /\ _heap' = Put(_heap, index, value)
  /\ pc' = "up"
  /\ cur' = index
  /\ op' = "changeKey"
  /\ args' = <<index, value>>
  /\ ret' = Undefined
  /\ thrown' = FALSE
  /\ ups' = 0
  /\ downs' = 0
  /\ UNCHANGED <<cmpSel, birthyear, adds, extracts, added, out, phase, dirty,
                 muts>>

\* update: indexOf, then changeKey up to its loop when the node is found
StartUpdate(node) ==
  /\ pc = "idle"
  /\ LET idx == indexOf(_heap, node)
     IN  IF idx >= 0
         THEN /\ _heap' = Put(_heap, idx, node)
              /\ pc' = "up"
              /\ cur' = idx
         ELSE UNCHANGED <<_heap, pc, cur>>
  /\ op' = "update"
  /\ args' = <<node>>
  /\ ret' = Undefined
  /\ thrown' = FALSE
  /\ ups' = 0
  /\ downs' = 0
  /\ UNCHANGED <<cmpSel, birthyear, adds, extracts, added, out, phase, dirty,
                 muts>>

\* extract up to its _heapify(0) call; ret is extr, which it returns
StartExtract ==
  /\ pc = "idle"
  /\ IF Len(_heap) = 0
     THEN /\ thrown' = TRUE
          /\ ret' = Undefined
          /\ UNCHANGED <<_heap, pc, cur, extracts>>
     ELSE /\ thrown' = FALSE
          /\ ret' = At(_heap, 0)
          /\ extracts' = extracts + 1
          /\ IF Len(Pop(_heap)) > 0
             THEN /\ _heap' = Put(Pop(_heap), 0, At(_heap, Len(_heap) - 1))
                  /\ pc' = "down"
                  /\ cur' = 0
             ELSE /\ _heap' = Pop(_heap)
                  /\ UNCHANGED <<pc, cur>>
  /\ op' = "extract"
  /\ args' = <<>>
  /\ ups' = 0
  /\ downs' = 0
  /\ UNCHANGED <<cmpSel, birthyear, adds, added, out, phase, dirty, muts>>

\* the while loop: its test and, when it passes, its body; when it fails,
\* _heapify(index) is called and ret is index, which changeKey returns and
\* _heapify does not change
UpStep ==
  /\ pc = "up"
  /\ LET r == siftUpStep(_heap, cur, args[Len(args)])
     IN  /\ _heap' = r.heap
         /\ cur' = r.index
         /\ pc' = IF r.again THEN "up" ELSE "down"
         /\ ups' = IF r.again THEN ups + 1 ELSE ups
         /\ ret' = IF r.again \/ op = "update" THEN ret ELSE r.index
  /\ UNCHANGED <<cmpSel, birthyear, op, args, thrown, adds, extracts, added,
                 out, phase, dirty, muts, downs>>

\* one _heapify call: it swaps and calls itself, or returns to the caller
DownStep ==
  /\ pc = "down"
  /\ LET r == heapifyStep(_heap, cur)
     IN  /\ _heap' = r.heap
         /\ cur' = r.index
         /\ pc' = IF r.again THEN "down" ELSE "idle"
         /\ downs' = IF r.again THEN downs + 1 ELSE downs
  /\ UNCHANGED <<cmpSel, birthyear, op, args, ret, thrown, adds, extracts,
                 added, out, phase, dirty, muts, ups>>

NextSteps ==
  \/ \E value \in Values : StartAdd(value)
  \/ \E index \in 0 .. MaxAdds - 1 : \E value \in Values :
       StartChangeKey(index, value)
  \/ \E node \in Values : StartUpdate(node)
  \/ StartExtract
  \/ UpStep
  \/ DownStep

\* a running call is not suspended: JavaScript runs it to its return
SpecSteps ==
  /\ Init
  /\ [][NextSteps]_vars
  /\ WF_vars(UpStep)
  /\ WF_vars(DownStep)

-----------------------------------------------------------------------------
(* Helpers of the properties *)

Indices(h) == 0 .. Len(h) - 1

\* the multiset of the values stored in h
BagOf(h) ==
  [v \in {h[i] : i \in DOMAIN h} |-> Cardinality({i \in DOMAIN h : h[i] = v})]

\* no child outranks its parent
HeapOrdered(h) ==
  \A i \in 1 .. Len(h) - 1 : _cmp(At(h, i), At(h, parentOf(i))) <= 0

RECURSIVE IsAncestorOrSelf(_, _)
IsAncestorOrSelf(a, i) ==
  \/ a = i
  \/ i > 0 /\ IsAncestorOrSelf(a, parentOf(i))

-----------------------------------------------------------------------------
\* C1: after any sequence of add, extract, changeKey (index in range) and
\* update calls on an initially empty heap, no child outranks its parent:
\* for every index i > 0, cmp(elements[i], elements[parent(i)]) <= 0.
HeapProperty == HeapOrdered(_heap)

\* changeKey lowered the root of a four-element heap and the new value sank
\* two levels, to index 3
HeapPropertyWitness ==
  /\ op = "changeKey"
  /\ Len(_heap) = 4
  /\ args[1] = 0
  /\ At(_heap, 3) = args[2]
  /\ \A i \in 0 .. 2 : _cmp(At(_heap, i), At(_heap, 3)) > 0

\* C2: extract on a non-empty heap returns the element that was at position
\* 0, no stored element outranks it, and the stored multiset loses exactly
\* one occurrence of it (a one-element heap becomes empty).
ExtractReturnsExtremum ==
  [][(op' = "extract" /\ Len(_heap) > 0) =>
       /\ ~thrown'
       /\ ret' = At(_heap, 0)
       /\ \A i \in Indices(_heap) : _cmp(At(_heap, i), ret') <= 0
       /\ Len(_heap') = Len(_heap) - 1
       /\ BagOf(_heap') (+) SetToBag({ret'}) = BagOf(_heap)]_vars

\* extract returned from a four-element heap whose last element was not the
\* next extremum, so the re-inserted last element sank
ExtractReturnsExtremumWitness ==
  /\ op = "extract"
  /\ ~thrown
  /\ Len(_heap) = 3
  /\ \A i \in Indices(_heap) : _cmp(At(_heap, i), ret) < 0
  /\ _cmp(At(_heap, 0), At(_heap, 1)) > 0
  /\ _cmp(At(_heap, 1), At(_heap, 2)) < 0

\* C5: extract on a heap that holds no element (fresh, or emptied by earlier
\* extracts) throws and changes nothing: the heap is still the empty heap of
\* a fresh construction.
ExtractOnEmpty ==
  [][(op' = "extract" /\ Len(_heap) = 0) =>
       /\ thrown'
       /\ _heap' = <<>>
       /\ cmpSel' = cmpSel
       /\ birthyear' = birthyear]_vars

\* extract threw on a heap that earlier adds filled and earlier extracts
\* emptied
ExtractOnEmptyWitness ==
  /\ op = "extract"
  /\ thrown
  /\ _heap = <<>>
  /\ extracts >= 2

\* C6: after k adds and m successful extracts, interleaved in any way, the
\* heap holds k - m elements.
SizeLaw == Len(_heap) = adds - extracts

\* adds and extracts were interleaved: an add followed a successful extract
SizeLawWitness ==
  /\ op = "add"
  /\ extracts >= 2
  /\ adds >= 3
  /\ Len(_heap) >= 1

\* C7: the index r returned by changeKey(index, v) satisfies
\* elements[r] = v right after the call, whether v rose, stayed or sank.
ChangeKeyReturnsNewPosition ==
  [][(op' = "changeKey") => At(_heap', ret') = args'[2]]_vars

\* C8: r = add(v) satisfies 0 <= r < length and elements[r] = v after the
\* call, and r is the old length or an ancestor of that slot.
AddReturnsRestingIndex ==
  [][(op' = "add") =>
       /\ 0 <= ret'
       /\ ret' < Len(_heap')
       /\ At(_heap', ret') = args'[1]
       /\ IsAncestorOrSelf(ret', Len(_heap))]_vars

\* add returned 0 for the fourth element: the value rose two levels
AddReturnsRestingIndexWitness ==
  /\ op = "add"
  /\ Len(_heap) = 4
  /\ ret = 0
  /\ \A i \in 1 .. 3 : _cmp(At(_heap, i), At(_heap, 0)) < 0

\* C10: update(node) with a node that equals no stored element throws
\* nothing and leaves every position of the array as it was.
UpdateAbsentIsNoop ==
  [][(op' = "update" /\ \A i \in Indices(_heap) : At(_heap, i) # args'[1]) =>
       /\ _heap' = _heap
       /\ ~thrown']_vars

\* update was called on a three-element heap with a node it does not hold
UpdateAbsentIsNoopWitness ==
  /\ op = "update"
  /\ Len(_heap) = 3
  /\ \A i \in Indices(_heap) : At(_heap, i) # args[1]

-----------------------------------------------------------------------------
(* Properties of the fill/drain run and of the sharing caller *)

Ascending(q) == \A k \in 1 .. Len(q) - 1 : q[k] <= q[k + 1]

\* each extracted element is outranked by none that follows it
HeapOrder(q) == \A k \in 1 .. Len(q) - 1 : _cmp(q[k + 1], q[k]) <= 0

\* C3: a heap built without a comparator is a min-heap: the numbers added
\* in any order are extracted in ascending order, smallest first; 5,3,8,1,4
\* come out as 1,3,4,5,8 and 3,1,2 as 1,2,3.
DefaultIsMinHeap ==
  (cmpSel = "default" /\ phase = "drain" /\ _heap = <<>>) =>
    /\ Ascending(out)
    /\ (added = <<5, 3, 8, 1, 4>> => out = <<1, 3, 4, 5, 8>>)
    /\ (added = <<3, 1, 2>> => out = <<1, 2, 3>>)

\* C4: with cmp(a, b) = a.birthyear - b.birthyear, extracting until empty
\* returns every added element exactly once, in non-increasing birthyear
\* order; John, Pavlo, Garry, Derek, Ivan come out as Pavlo, Derek, Garry,
\* John, Ivan.
ComparatorOrderedExtraction ==
  (cmpSel = "birthyear" /\ phase = "drain" /\ _heap = <<>>) =>
    /\ HeapOrder(out)
    /\ BagOf(out) = BagOf(added)
    /\ (added = <<1, 2, 3, 4, 5>> => out = <<2, 4, 3, 1, 5>>)

\* the five persons of the @example were added in its order and extracted
ComparatorOrderedExtractionWitness ==
  /\ cmpSel = "birthyear"
  /\ phase = "drain"
  /\ _heap = <<>>
  /\ added = <<1, 2, 3, 4, 5>>
  /\ Len(out) = 5

\* C9: when every object is stored once and the caller changes the
\* birthyear of one stored object and calls update with it, the heap
\* property holds again, update stores the same objects as before, and the
\* extractions that follow come out in the order of the new birthyears.
UpdateRelocates ==
  /\ [](dirty = {} => HeapOrdered(_heap) /\ HeapOrder(out))
  /\ [][(op' = "update") =>
          /\ BagOf(_heap') = BagOf(_heap)
          /\ \A i \in Indices(_heap') : \A j \in Indices(_heap') :
               At(_heap', i) = At(_heap', j) => i = j]_vars

\* the object that had the lowest birthyear of four stored objects was given
\* a higher one, update moved it to the root, and it was extracted first
UpdateRelocatesWitness ==
  /\ dirty = {}
  /\ muts = 1
  /\ Len(out) = 2
  /\ Len(_heap) = 2
  /\ birthyear[out[1]] > ExampleYears[out[1]]
  /\ \A i \in Indices(_heap) : ExampleYears[out[1]] < ExampleYears[At(_heap, i)]
  /\ ExampleYears[out[1]] < ExampleYears[out[2]]

-----------------------------------------------------------------------------
\* C11: top() returns the element at position 0 and changes nothing, so a
\* second top() right after it returns the same value; on a non-empty heap
\* the extract() that follows a top() returns the element top() returned.
IdempotentPeek ==
  [][/\ (op' = "top") =>
          /\ _heap' = _heap
          /\ Len(_heap) > 0 => ret' = At(_heap, 0)
          /\ op = "top" => ret' = ret
     /\ (op = "top" /\ op' = "extract" /\ Len(_heap) > 0) => ret' = ret]_vars

\* top returned the root of a three-element heap that adds and an extract
\* left behind
IdempotentPeekWitness ==
  /\ op = "top"
  /\ Len(_heap) = 3
  /\ ret = At(_heap, 0)
  /\ \A i \in 1 .. 2 : _cmp(At(_heap, i), ret) < 0
  /\ extracts >= 1

-----------------------------------------------------------------------------
-----------------------------------------------------------------------------
\* C13: a value that compares equal to its parent is not promoted: add(v)
\* on a heap whose element at the parent of the appended slot ties with v
\* returns the old length and moves no stored element, and changeKey(i, v)
\* with v tying with the parent of i returns i and leaves the parent alone.
TiesDoNotMoveUp ==
  [][/\ (/\ op' = "add"
         /\ Len(_heap) > 0
         /\ _cmp(args'[1], At(_heap, parentOf(Len(_heap)))) = 0) =>
          /\ ret' = Len(_heap)
          /\ _heap' = Append(_heap, args'[1])
     /\ (/\ op' = "changeKey"
         /\ args'[1] > 0
         /\ _cmp(args'[2], At(_heap, parentOf(args'[1]))) = 0) =>
          /\ ret' = args'[1]
          /\ At(_heap', parentOf(args'[1])) = At(_heap, parentOf(args'[1]))]_vars

\* the fourth element was added below a parent it ties with, which is not
\* the root, and stayed in the appended slot
TiesDoNotMoveUpWitness ==
  /\ op = "add"
  /\ Len(_heap) = 4
  /\ ret = 3
  /\ _cmp(At(_heap, 3), At(_heap, 1)) = 0
  /\ _cmp(At(_heap, 1), At(_heap, 0)) < 0

-----------------------------------------------------------------------------
\* the child the sift-down is to swap with the node at index i, i itself
\* when it is to swap nothing: the child that strictly outranks the node,
\* the left one unless the right one strictly outranks it
ChildChoice(h, i) ==
  LET l == 2 * i + 1
      r == 2 * i + 2
      leftWins == l < Len(h) /\ _cmp(At(h, l), At(h, i)) > 0
      rightWins == r < Len(h) /\ _cmp(At(h, r), At(h, i)) > 0
  IN  IF leftWins /\ rightWins
      THEN IF _cmp(At(h, r), At(h, l)) > 0 THEN r ELSE l
      ELSE IF leftWins THEN l
      ELSE IF rightWins THEN r
      ELSE i

\* the sift-down from index i turned array h0 into h1 by swapping the node
\* with the child ChildChoice names and leaving the other child alone, or by
\* swapping nothing
SiftDownChose(h0, h1, i) ==
  LET c == ChildChoice(h0, i)
  IN  IF c = i
      THEN h1 = h0
      ELSE /\ At(h1, i) = At(h0, c)
           /\ \A s \in {2 * i + 1, 2 * i + 2} :
                (s # c /\ s < Len(h0)) => At(h1, s) = At(h0, s)

\* C14: _heapify at index i swaps the node with the child that outranks it
\* most, the left child on a tie between the children, and swaps nothing
\* when no child strictly outranks the node.  Seen at the first _heapify
\* call of extract (index 0, the last element moved to the root) and of a
\* changeKey whose value did not rise (the given index).
SiftDownChildChoice ==
  [][/\ (op' = "extract" /\ Len(_heap) >= 2) =>
          SiftDownChose(Put(Pop(_heap), 0, At(_heap, Len(_heap) - 1)),
                        _heap', 0)
     /\ (op' = "changeKey" /\ ret' = args'[1]) =>
          SiftDownChose(Put(_heap, args'[1], args'[2]), _heap', args'[1])]_vars

\* extract left a three-element heap whose root ties with the right child and
\* outranks the left one: both children outranked the element moved to the
\* root, they tied, and the left one was swapped up
SiftDownChildChoiceWitness ==
  /\ op = "extract"
  /\ ~thrown
  /\ Len(_heap) = 3
  /\ _cmp(At(_heap, 0), At(_heap, 2)) = 0
  /\ _cmp(At(_heap, 1), At(_heap, 0)) < 0

-----------------------------------------------------------------------------
\* C17: no element is lost or duplicated: changeKey(index, v) keeps the
\* length and stores the previous multiset with one occurrence of the old
\* elements[index] replaced by v, add(v) stores the previous multiset plus
\* v, and update(node) and top() store the previous multiset.
ElementConservation ==
  [][/\ (op' = "changeKey") =>
          /\ Len(_heap') = Len(_heap)
          /\ BagOf(_heap') = BagOf(Put(_heap, args'[1], args'[2]))
     /\ (op' = "add") =>
          /\ Len(_heap') = Len(_heap) + 1
          /\ BagOf(_heap') = BagOf(_heap) (+) SetToBag({args'[1]})
     /\ (op' \in {"update", "top"}) =>
          /\ Len(_heap') = Len(_heap)
          /\ BagOf(_heap') = BagOf(_heap)]_vars

\* changeKey(3, v) moved a value that the heap did not hold before up to the
\* root of a four-element heap, past two elements that moved down
ElementConservationWitness ==
  /\ op = "changeKey"
  /\ Len(_heap) = 4
  /\ args[1] = 3
  /\ ret = 0
  /\ At(_heap, 0) = args[2]
  /\ \A i \in 1 .. 3 : At(_heap, i) # args[2]

-----------------------------------------------------------------------------
\* C15: every call of add, extract, changeKey and update returns: the while
\* loop of changeKey visits strictly decreasing indices and stops at index 0
\* at the latest, and the _heapify calls visit strictly increasing indices
\* below the length and stop exactly when no child below the length
\* outranks the node.
EveryOperationTerminates ==
  /\ (pc # "idle") ~> (pc = "idle")
  /\ [][/\ (pc = "up" /\ pc' = "up") => (0 <= cur' /\ cur' < cur)
        /\ (pc = "up" /\ cur = 0) => pc' = "down"
        /\ (pc = "down" /\ pc' = "down") => (cur < cur' /\ cur' < Len(_heap))
        /\ (pc = "down") =>
             (pc' = "idle" <=>
                \A c \in {2 * cur + 1, 2 * cur + 2} :
                  c < Len(_heap) => _cmp(At(_heap, c), At(_heap, cur)) <= 0)]_vars

\* a changeKey whose value sank two levels has returned
EveryOperationTerminatesWitness ==
  /\ pc = "idle"
  /\ op = "changeKey"
  /\ downs = 2
  /\ cur = 3

\* C16: at most one pass moves the element of a changeKey on a heap that
\* satisfied the heap property: when the while loop swapped, the trailing
\* _heapify swaps nothing, and when _heapify swaps, the loop swapped
\* nothing; the _heapify inside add never swaps.
AtMostOnePassMoves ==
  /\ ups = 0 \/ downs = 0
  /\ op = "add" => downs = 0

\* a changeKey raised the value at index 3 by one level; the trailing
\* _heapify(1) compared it with its child and returned without a swap
AtMostOnePassMovesWitness ==
  /\ pc = "idle"
  /\ op = "changeKey"
  /\ Len(_heap) = 4
  /\ args[1] = 3
  /\ ups = 1
  /\ downs = 0
  /\ cur = 1
  /\ _cmp(At(_heap, 3), At(_heap, 1)) < 0

====
